---- MODULE Spec2Model ----
(***************************************************************************)
(* Lease renewal reminder workflow (send_renewals_outlook_excel.py).      *)
(*                                                                         *)
(* The spreadsheet, the in-memory DataFrame, the audit log (send_log.csv)  *)
(* and the position of process_reminders() in its two nested loops are the *)
(* state.  Dates are day numbers.  A spreadsheet cell is a record          *)
(* [k, s, d]: k is the kind of Python value pandas hands to the script,    *)
(* s its text (kind "str") and d its number or day (other kinds).          *)
(* Variables marked "history" are not program state: they record what the  *)
(* run did (send attempts, reads and writes of the workbook).              *)
(***************************************************************************)
EXTENDS Integers, Sequences, FiniteSets, TLC

VARIABLES
    store,         \* prospects.xlsx: sequence of rows, a row maps column -> cell
    creds,         \* SMTP_USER and SMTP_PASS are both set
    clock,         \* the calendar day
    pc,            \* "idle", "row", "ms", "saved", "aborted"
    df,            \* the DataFrame of the run in progress
    today,         \* date.today() read at line 148
    sent_counter,  \* per tracking column
    idx,           \* row being iterated (1-based)
    row,           \* the Series iterrows() yielded for idx
    email_addr,    \* local of the row loop
    days_until,    \* local of the row loop
    mi,            \* milestone being iterated (1-based)
    log,           \* send_log.csv, one record per line
    sends,         \* history: every call of send_outlook
    io,            \* history: number of reads / writes of the workbook
    runs,          \* history: number of calls of process_reminders
    df0,           \* history: the DataFrame as the run loaded it
    w,             \* arguments and result of a within_window call
    dry_run,       \* DRY_RUN, line 54
    cadence,       \* the days that may lie between two calls of process_reminders
    crashed,       \* history: the runs that ended before line 201
    jobs           \* the scheduler's view of weekly_job: worker threads, fired and missed triggers

vars == <<store, creds, clock, pc, df, today, sent_counter, idx, row,
          email_addr, days_until, mi, log, sends, io, runs, df0, w,
          dry_run, cadence, crashed, jobs>>

runvars == <<store, creds, clock, pc, df, today, sent_counter, idx, row,
             email_addr, days_until, mi, log, sends, io, runs, df0,
             dry_run, cadence, crashed, jobs>>

----------------------------------------------------------------------------
(* Bounds *)

MaxRows == 2     \* rows of a multi-row workbook
MaxRuns == 2     \* calls of process_reminders in one behaviour
MaxTol == 3      \* largest tolerance tried on within_window
MaxWorkers == 2  \* worker threads of the scheduler's pool that are followed

----------------------------------------------------------------------------
(* Settings, lines 34-54 *)

MILESTONES ==
    << [days |-> 60, tolerance |-> 2, col |-> "last_sent_60"],
       [days |-> 30, tolerance |-> 2, col |-> "last_sent_30"] >>

COOLDOWN_DAYS == 21

MilestoneCols == { MILESTONES[j].col : j \in DOMAIN MILESTONES }

----------------------------------------------------------------------------
(* Cell values *)

Cell(k, s, d) == [k |-> k, s |-> s, d |-> d]

NoneV == Cell("none", "", 0)            \* Python None (row.get on a column that is absent)
NaN == Cell("nan", "", 0)               \* empty cell as read_excel returns it (NaN / NaT)
Str(s) == Cell("str", s, 0)
DateStr(d) == Cell("str", "%Y-%m-%d", d) \* the text of day d in ISO form
Ts(d) == Cell("ts", "", d)              \* a date cell (pd.Timestamp)
BoolV(b) == Cell("bool", "", IF b THEN 1 ELSE 0)
IntV(n) == Cell("int", "", n)
FloatV(n) == Cell("float", "", n)       \* the float n.0

None == << >>                           \* parse_date's None
Some(d) == << d >>

(* bool(x) of Python: NaN is a non-zero float, hence true *)
Truthy(c) ==
    CASE c.k = "none" -> FALSE
      [] c.k = "nan" -> TRUE
      [] c.k = "str" -> c.s # ""
      [] c.k = "ts" -> TRUE
      [] c.k \in {"bool", "int", "float"} -> c.d # 0

(* x or y *)
PyOr(c, dflt) == IF Truthy(c) THEN c ELSE dflt

(* str(x) *)
PyStr(c) ==
    CASE c.k = "none" -> "None"
      [] c.k = "nan" -> "nan"
      [] c.k = "str" -> c.s
      [] c.k = "ts" -> "Timestamp"
      [] c.k = "bool" -> IF c.d = 1 THEN "True" ELSE "False"
      [] c.k = "int" -> IF c.d = 1 THEN "1" ELSE "0"
      [] c.k = "float" -> IF c.d = 1 THEN "1.0" ELSE "0.0"

(* str.strip() and str.lower() on the texts that occur *)
Strip(s) == IF s = " " THEN "" ELSE s

Lower(s) ==
    CASE s = "Yes" -> "yes"
      [] s = "True" -> "true"
      [] s = "False" -> "false"
      [] OTHER -> s

(* variant: a column that is absent reads as an empty cell *)
Get_NaNDefault(r, col) == IF col \in DOMAIN r THEN r[col] ELSE NaN

(* row.get(col): None when the column is absent *)
Get(r, col) == IF col \in DOMAIN r THEN r[col] ELSE NoneV

----------------------------------------------------------------------------
(* Helper functions, lines 84-99 *)

(* variant: text is never taken as a date *)
parse_date_NoText(cell) ==
    IF cell.k = "ts" THEN Some(cell.d) ELSE None

(* parse_date(cell) *)
parse_date(cell) ==
    IF cell.k \in {"none", "nan"} \/ cell = Str("")
    THEN None
    ELSE IF cell.k = "ts"
    THEN Some(cell.d)
    ELSE IF cell.k = "str"
    THEN (IF cell.s = "%Y-%m-%d" THEN Some(cell.d) ELSE None)  \* to_datetime raises on other text
    ELSE IF cell.k = "bool"
    THEN None                                                  \* to_datetime raises TypeError
    ELSE Some(0)                                               \* a number is taken as nanoseconds after 1970-01-01 (day 0)

(* variant: the upper edge of the window is left out *)
within_window_Strict(du, target, tol) ==
    (target - tol) <= du /\ du < (target + tol)

within_window(du, target, tol) ==
    (target - tol) <= du /\ du <= (target + tol)

----------------------------------------------------------------------------
(* The workbook: pd.read_excel (line 141) and DataFrame.to_excel (201-202) *)

IsEmptyCell(c) == c.k = "nan" \/ c = Str("")

ColHasEmpty(file, col) == \E i \in DOMAIN file : IsEmptyCell(file[i][col])

(* an empty cell is read as NaN; a column of whole numbers with an empty *)
(* cell is read as float64 *)
ReadCell(file, i, col) ==
    LET c == file[i][col] IN
    IF IsEmptyCell(c) THEN NaN
    ELSE IF c.k = "int" /\ ColHasEmpty(file, col) THEN FloatV(c.d)
    ELSE c

read_excel(file) ==
    [i \in DOMAIN file |-> [col \in DOMAIN file[i] |-> ReadCell(file, i, col)]]

(* variant: the tracking columns are reset on every load *)
EnsureCols_Always(frame) ==
    [i \in DOMAIN frame |->
        [col \in (DOMAIN frame[i]) \cup MilestoneCols |->
            IF col \in MilestoneCols THEN Str("") ELSE frame[i][col]]]

(* lines 144-146: df[m["col"]] = "" for a tracking column that is absent *)
EnsureCols(frame) ==
    [i \in DOMAIN frame |->
        [col \in (DOMAIN frame[i]) \cup MilestoneCols |->
            IF col \in DOMAIN frame[i] THEN frame[i][col] ELSE Str("")]]

WriteCell(c) == IF c.k = "float" THEN IntV(c.d) ELSE c

to_excel(frame) ==
    [i \in DOMAIN frame |-> [col \in DOMAIN frame[i] |-> WriteCell(frame[i][col])]]

----------------------------------------------------------------------------
(* Expressions of the row loop, lines 153-173 *)

(* line 153 *)
EmailOf(r) == Strip(PyStr(PyOr(Get(r, "email"), Str(""))))

(* line 157 *)
IsOptedOut(r) ==
    Lower(PyStr(PyOr(Get(r, "opted_out"), Str("")))) \in {"true", "yes", "1"}

(* line 161 *)
LeaseEnd(r) == parse_date(Get(r, "lease_end_date"))

(* variant: the comparison is turned round *)
InCooldown_Inverted(last_sent, day) ==
    last_sent # None /\ day - last_sent[1] > COOLDOWN_DAYS

(* variant: only a send of the same day suppresses *)
InCooldown_SameDayOnly(last_sent, day) ==
    last_sent # None /\ day - last_sent[1] <= 0

(* line 173 *)
InCooldown(last_sent, day) ==
    last_sent # None /\ day - last_sent[1] < COOLDOWN_DAYS

(* variant: the frame is not written *)
Stamp_Skipped(frame, i, col, day) == frame

(* line 194: the cell takes the text of strftime("%Y-%m-%d"); the column *)
(* is taken to accept text, as a column of dtype object does           *)
Stamp(frame, i, col, day) == [frame EXCEPT ![i][col] = DateStr(day)]

(* line 120-128: one line of send_log.csv; run, row and ms are history *)
LogLine(status, email, note, j) ==
    [ts |-> clock, email |-> email, status |-> status, note |-> note,
     run |-> runs, row |-> idx, ms |-> j]

(* line 196 *)
MilestoneNote(m) == IF m.days = 60 THEN "milestone=60" ELSE "milestone=30"

----------------------------------------------------------------------------
(* Workbooks and days the runs start from *)

Row(e, o, l, s60, s30) ==
    [email |-> e, opted_out |-> o, lease_end_date |-> l,
     last_sent_60 |-> s60, last_sent_30 |-> s30]

EmailCells == {NaN, Str(" "), Str("a@x.com")}
OptCells == {NaN, Str("Yes"), Str("no"), BoolV(TRUE), IntV(1)}
LeaseCells == {NaN, Str("n/a"), Ts(70), DateStr(100)}
Last60Cells == {NaN, DateStr(20)}
Last30Cells == {NaN, Ts(39)}

AllRows ==
    { Row(e, o, l, s60, s30) :
        e \in EmailCells, o \in OptCells, l \in LeaseCells,
        s60 \in Last60Cells, s30 \in Last30Cells }

KeyRows ==
    { Row(Str("a@x.com"), NaN, DateStr(100), NaN, NaN),
      Row(Str("b@x.com"), NaN, Ts(70), NaN, NaN),
      Row(Str("c@x.com"), IntV(1), DateStr(100), NaN, NaN),
      Row(Str("d@x.com"), NaN, Str("n/a"), NaN, NaN),
      Row(NaN, NaN, DateStr(100), NaN, NaN),
      Row(Str(" "), Str("Yes"), Ts(70), NaN, NaN) }

SeqsOf(S, lo, hi) == UNION { [1..n -> S] : n \in lo..hi }

KeyStores == SeqsOf(KeyRows, 1, MaxRows)

(* the workbook without the columns cols *)
Drop(file, cols) ==
    [i \in DOMAIN file |-> [c \in (DOMAIN file[i]) \ cols |-> file[i][c]]]

DroppedCols == {{"email"}, {"lease_end_date"}, {"opted_out"}, MilestoneCols}

DropRows ==
    { Row(Str("a@x.com"), NaN, DateStr(100), NaN, NaN),
      Row(Str("b@x.com"), Str("Yes"), Ts(70), NaN, NaN),
      Row(NaN, NaN, Ts(70), NaN, NaN) }

Stores ==
    {<< >>} \cup SeqsOf(AllRows, 1, 1) \cup KeyStores
            \cup { Drop(f, cols) : f \in SeqsOf(DropRows, 1, MaxRows), cols \in DroppedCols }

StartDays == {37, 38, 40, 42, 43}

(* days between two runs: the same day or the next *)
DayGaps == {0, 1}

Workers == 1..MaxWorkers

(* no worker thread runs weekly_job *)
IdleJobs == [at |-> [t \in Workers |-> "free"], fired |-> 0, missed |-> 0]

NoRow == [c \in {} |-> NaN]
NoCall == [du |-> 0, target |-> 0, tol |-> 0, done |-> TRUE, r |-> TRUE]

----------------------------------------------------------------------------
(* process_reminders, lines 132-204 *)

Init ==
    /\ store \in Stores
    /\ creds \in BOOLEAN
    /\ clock \in StartDays
    /\ pc = "idle"
    /\ df = << >>
    /\ today = 0
    /\ sent_counter = [c \in MilestoneCols |-> 0]
    /\ idx = 0
    /\ row = NoRow
    /\ email_addr = ""
    /\ days_until = 0
    /\ mi = 0
    /\ log = << >>
    /\ sends = << >>
    /\ io = [reads |-> 0, writes |-> 0]
    /\ runs = 0
    /\ df0 = << >>
    /\ w = NoCall
    /\ dry_run = FALSE
    /\ cadence = DayGaps
    /\ crashed = {}
    /\ jobs = IdleJobs

(* the scheduler (or the operator) calls process_reminders: no call while *)
(* another is running (BlockingScheduler, max_instances 1)                *)
CanStart == pc \in {"idle", "saved", "aborted", "crashed"} /\ runs < MaxRuns

Gaps == IF runs = 0 THEN {0} ELSE cadence

(* lines 136-138: SystemExit when the credentials are missing *)
Abort ==
    /\ CanStart
    /\ ~creds
    /\ \E g \in Gaps : clock' = clock + g
    /\ pc' = "aborted"
    /\ runs' = runs + 1
    /\ UNCHANGED <<store, creds, df, today, sent_counter, idx, row, email_addr,
                   days_until, mi, log, sends, io, df0, w,
                   dry_run, cadence, crashed, jobs>>

(* variant: the credentials are not looked at *)
Load_NoCredCheck ==
    /\ CanStart
    /\ \E g \in Gaps : clock' = clock + g
    /\ df' = EnsureCols(read_excel(store))
    /\ df0' = df'
    /\ io' = [io EXCEPT !.reads = @ + 1]
    /\ today' = clock'
    /\ sent_counter' = [c \in MilestoneCols |-> 0]
    /\ idx' = 1
    /\ mi' = 0
    /\ row' = NoRow
    /\ email_addr' = ""
    /\ days_until' = 0
    /\ pc' = "row"
    /\ runs' = runs + 1
    /\ UNCHANGED <<store, creds, log, sends, w,
                   dry_run, cadence, crashed, jobs>>

(* lines 141-149 *)
Load ==
    /\ CanStart
    /\ creds
    /\ \E g \in Gaps : clock' = clock + g
    /\ df' = EnsureCols(read_excel(store))
    /\ df0' = df'
    /\ io' = [io EXCEPT !.reads = @ + 1]
    /\ today' = clock'
    /\ sent_counter' = [c \in MilestoneCols |-> 0]
    /\ idx' = 1
    /\ mi' = 0
    /\ row' = NoRow
    /\ email_addr' = ""
    /\ days_until' = 0
    /\ pc' = "row"
    /\ runs' = runs + 1
    /\ UNCHANGED <<store, creds, log, sends, w,
                   dry_run, cadence, crashed, jobs>>

AtRow == pc = "row" /\ idx <= Len(df)

(* lines 153-155 *)
SkipEmptyEmail ==
    /\ AtRow
    /\ EmailOf(df[idx]) = ""
    /\ idx' = idx + 1
    /\ email_addr' = ""
    /\ row' = df[idx]
    /\ UNCHANGED <<store, creds, clock, pc, df, today, sent_counter,
                   days_until, mi, log, sends, io, runs, df0, w,
                   dry_run, cadence, crashed, jobs>>

(* variant: the row is passed over without a log line *)
SkipOptedOut_Silent ==
    /\ AtRow
    /\ EmailOf(df[idx]) # ""
    /\ IsOptedOut(df[idx])
    /\ idx' = idx + 1
    /\ email_addr' = EmailOf(df[idx])
    /\ row' = df[idx]
    /\ UNCHANGED <<store, creds, clock, pc, df, today, sent_counter,
                   days_until, mi, log, sends, io, runs, df0, w,
                   dry_run, cadence, crashed, jobs>>

(* lines 157-159 *)
SkipOptedOut ==
    /\ AtRow
    /\ EmailOf(df[idx]) # ""
    /\ IsOptedOut(df[idx])
    /\ log' = Append(log, LogLine("skip", EmailOf(df[idx]), "opted_out", 0))
    /\ idx' = idx + 1
    /\ email_addr' = EmailOf(df[idx])
    /\ row' = df[idx]
    /\ UNCHANGED <<store, creds, clock, pc, df, today, sent_counter,
                   days_until, mi, sends, io, runs, df0, w,
                   dry_run, cadence, crashed, jobs>>

(* lines 161-164 *)
SkipInvalidDate ==
    /\ AtRow
    /\ EmailOf(df[idx]) # ""
    /\ ~IsOptedOut(df[idx])
    /\ LeaseEnd(df[idx]) = None
    /\ log' = Append(log, LogLine("skip", EmailOf(df[idx]), "invalid lease_end_date", 0))
    /\ idx' = idx + 1
    /\ email_addr' = EmailOf(df[idx])
    /\ row' = df[idx]
    /\ UNCHANGED <<store, creds, clock, pc, df, today, sent_counter,
                   days_until, mi, sends, io, runs, df0, w,
                   dry_run, cadence, crashed, jobs>>

(* lines 166-170: the row goes on to the milestone loop *)
EnterRow ==
    /\ AtRow
    /\ EmailOf(df[idx]) # ""
    /\ ~IsOptedOut(df[idx])
    /\ LeaseEnd(df[idx]) # None
    /\ row' = df[idx]
    /\ email_addr' = EmailOf(df[idx])
    /\ days_until' = LeaseEnd(df[idx])[1] - today
    /\ mi' = 1
    /\ pc' = "ms"
    /\ UNCHANGED <<store, creds, clock, df, today, sent_counter, idx,
                   log, sends, io, runs, df0, w,
                   dry_run, cadence, crashed, jobs>>

AtMilestone == pc = "ms" /\ mi \in DOMAIN MILESTONES

(* the next milestone, or the next row after the last milestone *)
NextMilestone ==
    IF mi < Len(MILESTONES)
    THEN mi' = mi + 1 /\ UNCHANGED <<pc, idx>>
    ELSE mi' = 0 /\ pc' = "row" /\ idx' = idx + 1

LastSent == parse_date(Get(row, MILESTONES[mi].col))

Matches ==
    /\ ~InCooldown(LastSent, today)
    /\ within_window(days_until, MILESTONES[mi].days, MILESTONES[mi].tolerance)

(* variant: DRY_RUN is not looked at *)
InvokesTransport_Always(dry) == TRUE

(* lines 110-118: send_outlook opens the SMTP connection unless DRY_RUN *)
InvokesTransport(dry) == ~dry

(* lines 177-190: the context and the templates picked by the milestone; *)
(* lease_end_fmt is the text of the lease end day                        *)
Render(r, m, lease_end) ==
    [subject |-> IF m.days = 60 THEN "SUBJECT_60" ELSE "SUBJECT_30",
     html |-> IF m.days = 60 THEN "HTML_60" ELSE "HTML_30",
     first_name |-> Strip(PyStr(PyOr(Get(r, "first_name"), Str("there")))),
     property |-> Strip(PyStr(PyOr(Get(r, "property"), Str("")))),
     unit |-> Strip(PyStr(PyOr(Get(r, "unit"), Str("")))),
     lease_end_fmt |-> lease_end]

(* one call of send_outlook: smtp tells whether the transport was invoked *)
SendRecord(ok) ==
    [run |-> runs, row |-> idx, ms |-> mi, to |-> email_addr, day |-> today, ok |-> ok,
     smtp |-> InvokesTransport(dry_run),
     msg |-> Render(row, MILESTONES[mi], days_until + today)]

(* variant: a suppressed pair is logged as a skip *)
MsCooldown_Logged ==
    /\ AtMilestone
    /\ InCooldown(LastSent, today)
    /\ log' = Append(log, LogLine("skip", email_addr, "cooldown", mi))
    /\ NextMilestone
    /\ UNCHANGED <<store, creds, clock, df, today, sent_counter, row, email_addr,
                   days_until, sends, io, runs, df0, w,
                   dry_run, cadence, crashed, jobs>>

(* lines 171-174 *)
MsCooldown ==
    /\ AtMilestone
    /\ InCooldown(LastSent, today)
    /\ NextMilestone
    /\ UNCHANGED <<store, creds, clock, df, today, sent_counter, row, email_addr,
                   days_until, log, sends, io, runs, df0, w,
                   dry_run, cadence, crashed, jobs>>

(* line 176, condition false *)
MsNoMatch ==
    /\ AtMilestone
    /\ ~InCooldown(LastSent, today)
    /\ ~within_window(days_until, MILESTONES[mi].days, MILESTONES[mi].tolerance)
    /\ NextMilestone
    /\ UNCHANGED <<store, creds, clock, df, today, sent_counter, row, email_addr,
                   days_until, log, sends, io, runs, df0, w,
                   dry_run, cadence, crashed, jobs>>

(* variant: the workbook is written after every send *)
MsSendOk_SavesAtOnce ==
    /\ AtMilestone
    /\ Matches
    /\ sends' = Append(sends, SendRecord(TRUE))
    /\ df' = Stamp(df, idx, MILESTONES[mi].col, today)
    /\ store' = to_excel(df')
    /\ sent_counter' = [sent_counter EXCEPT ![MILESTONES[mi].col] = @ + 1]
    /\ log' = Append(log, LogLine("sent", email_addr, MilestoneNote(MILESTONES[mi]), mi))
    /\ NextMilestone
    /\ UNCHANGED <<creds, clock, today, row, email_addr, days_until,
                   io, runs, df0, w,
                   dry_run, cadence, crashed, jobs>>

(* lines 176-196: send_outlook returns *)
MsSendOk ==
    /\ AtMilestone
    /\ Matches
    /\ sends' = Append(sends, SendRecord(TRUE))
    /\ df' = Stamp(df, idx, MILESTONES[mi].col, today)
    /\ sent_counter' = [sent_counter EXCEPT ![MILESTONES[mi].col] = @ + 1]
    /\ log' = Append(log, LogLine("sent", email_addr, MilestoneNote(MILESTONES[mi]), mi))
    /\ NextMilestone
    /\ UNCHANGED <<store, creds, clock, today, row, email_addr, days_until,
                   io, runs, df0, w,
                   dry_run, cadence, crashed, jobs>>

(* variant: the failed send is tried again at once *)
MsSendFail_Retries ==
    /\ AtMilestone
    /\ Matches
    /\ InvokesTransport(dry_run)
    /\ sends' = Append(sends, SendRecord(FALSE))
    /\ log' = Append(log, LogLine("error", email_addr, "traceback", mi))
    /\ UNCHANGED <<store, creds, clock, df, today, sent_counter, idx, row, email_addr,
                   days_until, mi, pc, io, runs, df0, w,
                   dry_run, cadence, crashed, jobs>>

(* variant: the exception leaves process_reminders *)
MsSendFail_Raises ==
    /\ AtMilestone
    /\ Matches
    /\ InvokesTransport(dry_run)
    /\ sends' = Append(sends, SendRecord(FALSE))
    /\ pc' = "aborted"
    /\ UNCHANGED <<store, creds, clock, df, today, sent_counter, idx, row, email_addr,
                   days_until, mi, log, io, runs, df0, w,
                   dry_run, cadence, crashed, jobs>>

(* lines 176-193, 197-198: send_outlook raises (lines 115-118) *)
MsSendFail ==
    /\ AtMilestone
    /\ Matches
    /\ InvokesTransport(dry_run)
    /\ sends' = Append(sends, SendRecord(FALSE))
    /\ log' = Append(log, LogLine("error", email_addr, "traceback", mi))
    /\ NextMilestone
    /\ UNCHANGED <<store, creds, clock, df, today, sent_counter, row, email_addr,
                   days_until, io, runs, df0, w,
                   dry_run, cadence, crashed, jobs>>

(* lines 200-204: after the last row *)
Save ==
    /\ pc = "row"
    /\ idx > Len(df)
    /\ store' = to_excel(df)
    /\ io' = [io EXCEPT !.writes = @ + 1]
    /\ pc' = "saved"
    /\ UNCHANGED <<creds, clock, df, today, sent_counter, idx, row, email_addr,
                   days_until, mi, log, sends, runs, df0, w,
                   dry_run, cadence, crashed, jobs>>

Next ==
    \/ Abort
    \/ Load
    \/ SkipEmptyEmail
    \/ SkipOptedOut
    \/ SkipInvalidDate
    \/ EnterRow
    \/ MsCooldown
    \/ MsNoMatch
    \/ MsSendOk
    \/ MsSendFail
    \/ Save

Spec == Init /\ [][Next]_vars

(* a call of process_reminders that has started runs on: the interpreter *)
(* executes the next statement of the loop                              *)
RunStep ==
    \/ SkipEmptyEmail
    \/ SkipOptedOut
    \/ SkipInvalidDate
    \/ EnterRow
    \/ MsCooldown
    \/ MsNoMatch
    \/ MsSendOk
    \/ MsSendFail
    \/ Save

FairSpec == Spec /\ WF_vars(RunStep)

----------------------------------------------------------------------------
(* within_window on its own: arguments drawn from small sets *)

Offsets == {0, 1, 30, 60}

InitWindow ==
    /\ store = << >>
    /\ creds = FALSE
    /\ clock = 0
    /\ pc = "idle"
    /\ df = << >>
    /\ today = 0
    /\ sent_counter = [c \in MilestoneCols |-> 0]
    /\ idx = 0
    /\ row = NoRow
    /\ email_addr = ""
    /\ days_until = 0
    /\ mi = 0
    /\ log = << >>
    /\ sends = << >>
    /\ io = [reads |-> 0, writes |-> 0]
    /\ runs = 0
    /\ df0 = << >>
    /\ dry_run = FALSE
    /\ cadence = DayGaps
    /\ crashed = {}
    /\ jobs = IdleJobs
    /\ \E target \in Offsets, tol \in 0..MaxTol, k \in (0 - MaxTol - 1)..(MaxTol + 1) :
          w = [du |-> target + k, target |-> target, tol |-> tol,
               done |-> FALSE, r |-> FALSE]

CallWithinWindow ==
    /\ ~w.done
    /\ w' = [w EXCEPT !.done = TRUE, !.r = within_window(w.du, w.target, w.tol)]
    /\ UNCHANGED runvars

NextWindow == CallWithinWindow

SpecWindow == InitWindow /\ [][NextWindow]_vars

----------------------------------------------------------------------------
(* Vocabulary of the properties *)

Loaded == pc \in {"row", "ms", "saved"}

Pairs == { <<i, j>> : i \in DOMAIN df0, j \in DOMAIN MILESTONES }

ColOf(j) == MILESTONES[j].col

(* the send attempts / log lines of run r for row i and milestone j *)
SendsOf(r, i, j) ==
    { k \in DOMAIN sends : sends[k].run = r /\ sends[k].row = i /\ sends[k].ms = j }

LinesOf(r, i, j, status) ==
    { k \in DOMAIN log :
        log[k].run = r /\ log[k].row = i /\ log[k].ms = j /\ log[k].status = status }

RowLines(r, i) == { k \in DOMAIN log : log[k].run = r /\ log[k].row = i }

RowSends(r, i) == { k \in DOMAIN sends : sends[k].run = r /\ sends[k].row = i }

(* the last-sent date the run loaded for <<i, j>> *)
Last0(i, j) == parse_date(df0[i][ColOf(j)])

(* row i passes the three tests at the head of the row loop *)
Passes(i) ==
    /\ EmailOf(df0[i]) # ""
    /\ ~IsOptedOut(df0[i])
    /\ LeaseEnd(df0[i]) # None

DaysUntil0(i) == LeaseEnd(df0[i])[1] - today

InsideWindow(i, j) ==
    /\ MILESTONES[j].days - MILESTONES[j].tolerance <= DaysUntil0(i)
    /\ DaysUntil0(i) <= MILESTONES[j].days + MILESTONES[j].tolerance

Recent(i, j) == Last0(i, j) # None /\ today - Last0(i, j)[1] < 21

Abs(n) == IF n < 0 THEN 0 - n ELSE n

----------------------------------------------------------------------------
(* C1: a pair whose last-sent date is set and less than COOLDOWN_DAYS (21) *)
(* days before today gets no send attempt in the run, inside or outside    *)
(* the milestone's window, and its tracking field stays as loaded.         *)
C1_CooldownSuppresses ==
    Loaded =>
        \A p \in Pairs :
            Recent(p[1], p[2]) =>
                /\ SendsOf(runs, p[1], p[2]) = {}
                /\ df[p[1]][ColOf(p[2])] = df0[p[1]][ColOf(p[2])]
                /\ pc = "saved" =>
                      parse_date(store[p[1]][ColOf(p[2])]) = Last0(p[1], p[2])

(* a finished run with a pair in cooldown whose window matches today *)
C1_Witness ==
    /\ pc = "saved"
    /\ \E p \in Pairs :
          Recent(p[1], p[2]) /\ Passes(p[1]) /\ InsideWindow(p[1], p[2])

(* C2: within_window(du, D, T) is true exactly when du is at most T away   *)
(* from D; true at du = D for every T >= 0; with T = 0 true iff du = D.    *)
C2_WindowExact ==
    w.done =>
        /\ w.r <=> (Abs(w.du - w.target) <= w.tol)
        /\ w.du = w.target => w.r
        /\ w.tol = 0 => (w.r <=> w.du = w.target)
        /\ (w.tol = 0 /\ Abs(w.du - w.target) = 1) => ~w.r

(* the upper edge of a window with a tolerance *)
C2_Witness ==
    /\ w.done
    /\ w.tol > 0
    /\ w.du = w.target + w.tol
    /\ w.r

(* C3: a send that succeeds stamps the pair's tracking field with today,   *)
(* adds one to the milestone's counter and appends exactly one "sent"      *)
(* line; a matching pair of a row that is not skipped gets one attempt.    *)
C3_SuccessStamps ==
    Loaded =>
        /\ \A k \in DOMAIN sends :
              (sends[k].run = runs /\ sends[k].ok) =>
                  LET i == sends[k].row
                      j == sends[k].ms
                  IN  /\ parse_date(df[i][ColOf(j)]) = Some(today)
                      /\ Cardinality(LinesOf(runs, i, j, "sent")) = 1
                      /\ LinesOf(runs, i, j, "error") = {}
                      /\ pc = "saved" => parse_date(store[i][ColOf(j)]) = Some(today)
        /\ \A j \in DOMAIN MILESTONES :
              sent_counter[ColOf(j)] =
                  Cardinality({ k \in DOMAIN sends :
                      sends[k].run = runs /\ sends[k].ms = j /\ sends[k].ok })
        /\ pc = "saved" =>
              \A p \in Pairs :
                  (Passes(p[1]) /\ ~Recent(p[1], p[2]) /\ InsideWindow(p[1], p[2]))
                      => Cardinality(SendsOf(runs, p[1], p[2])) = 1

(* lease end 60 days from today, no last_sent_60, the send succeeded *)
C3_Witness ==
    /\ pc = "saved"
    /\ \E k \in DOMAIN sends :
          /\ sends[k].run = runs
          /\ sends[k].ok
          /\ sends[k].ms = 1
          /\ DaysUntil0(sends[k].row) = 60
          /\ Last0(sends[k].row, 1) = None

(* C4: once a run has sent a pair successfully and saved, a later run on   *)
(* the same or the next day (any day less than 21 days later) makes no     *)
(* send for the pair, appends no line for it and keeps the stamp.          *)
C4_StampRoundTrip ==
    Loaded =>
        \A k \in DOMAIN sends :
            (sends[k].ok /\ sends[k].run < runs /\ today - sends[k].day < 21) =>
                LET i == sends[k].row
                    j == sends[k].ms
                IN  /\ SendsOf(runs, i, j) = {}
                    /\ LinesOf(runs, i, j, "sent") = {}
                    /\ Last0(i, j) = Some(sends[k].day)
                    /\ parse_date(df[i][ColOf(j)]) = Some(sends[k].day)
                    /\ parse_date(store[i][ColOf(j)]) = Some(sends[k].day)

(* a run the day after the successful send, the window still matching *)
C4_Witness ==
    /\ pc = "saved"
    /\ \E k \in DOMAIN sends :
          /\ sends[k].ok
          /\ sends[k].run < runs
          /\ today = sends[k].day + 1
          /\ InsideWindow(sends[k].row, sends[k].ms)

(* the pair <<i2, j2>> is iterated after <<i, j>> *)
After(i, j, i2, j2) == i2 > i \/ (i2 = i /\ j2 > j)

FailedSends == { k \in DOMAIN sends : sends[k].run = runs /\ ~sends[k].ok }

C5_FailureLocal ==
    Loaded =>
        /\ \A k \in FailedSends :
              LET i == sends[k].row
                  j == sends[k].ms
              IN  /\ df[i][ColOf(j)] = df0[i][ColOf(j)]
                  /\ Cardinality(LinesOf(runs, i, j, "error")) = 1
                  /\ LinesOf(runs, i, j, "sent") = {}
                  /\ pc = "saved" =>
                        /\ parse_date(store[i][ColOf(j)]) = Last0(i, j)
                        /\ io.writes = io.reads
                        /\ \A p \in Pairs :
                              ( /\ After(i, j, p[1], p[2])
                                /\ Passes(p[1])
                                /\ ~Recent(p[1], p[2])
                                /\ InsideWindow(p[1], p[2]) )
                                  => SendsOf(runs, p[1], p[2]) # {}
        /\ \A j \in DOMAIN MILESTONES :
              sent_counter[ColOf(j)] + Cardinality({ k \in FailedSends : sends[k].ms = j })
                  = Cardinality({ k \in DOMAIN sends : sends[k].run = runs /\ sends[k].ms = j })

(* C5: a send that fails appends one "error" line, leaves the tracking     *)
(* field and the counter alone, and the run goes on over the remaining     *)
(* milestones and rows and saves the workbook: it is never aborted.        *)
C5_TransportFailure ==
    /\ [](C5_FailureLocal)
    /\ [](FailedSends # {} => pc # "aborted")
    /\ (pc \in {"row", "ms"} /\ FailedSends # {}) ~> (pc = "saved" /\ FailedSends # {})

(* a saved run in which a send failed and a later pair was still attempted *)
C5_Witness ==
    /\ pc = "saved"
    /\ \E k \in FailedSends :
          \E k2 \in DOMAIN sends : sends[k2].run = runs /\ sends[k2].row > sends[k].row

----------------------------------------------------------------------------
(* What a reader of the workbook calls an opt-out flag that is set, and an *)
(* email address that is missing                                          *)

FlagSet(c) ==
    \/ c.k = "str" /\ c.s \in {"Yes", "yes", "true", "True", "1"}
    \/ c.k = "bool" /\ c.d = 1
    \/ c.k \in {"int", "float"} /\ c.d = 1

NoEmail(r) ==
    \/ "email" \notin DOMAIN r
    \/ r["email"].k = "nan"
    \/ r["email"] \in {Str(""), Str(" ")}

TrackingKept(i) == \A j \in DOMAIN MILESTONES : df[i][ColOf(j)] = df0[i][ColOf(j)]

SkipLines(i) == { k \in RowLines(runs, i) : log[k].status = "skip" }

(* C6: a record that has an email address and whose opt-out flag is set,   *)
(* or whose lease end date is empty or unparseable, gets no send attempt   *)
(* and no stamp, and the finished run holds a "skip" line for it.          *)
C6_SkippedRecords ==
    Loaded =>
        \A i \in DOMAIN df0 :
            ( /\ ~NoEmail(df0[i])
              /\ \/ FlagSet(Get(df0[i], "opted_out"))
                 \/ LeaseEnd(df0[i]) = None )
            =>  /\ RowSends(runs, i) = {}
                /\ TrackingKept(i)
                /\ pc = "saved" => SkipLines(i) # {}

(* C7: a record with no email address gets no send attempt and no stamp,   *)
(* whatever its lease end date.                                            *)
C7_NoEmailInert ==
    Loaded =>
        \A i \in DOMAIN df0 :
            NoEmail(df0[i]) => (RowSends(runs, i) = {} /\ TrackingKept(i))

(* the rows the row loop passes over, by the test that does it *)
SkippedEmail(i) == EmailOf(df0[i]) = ""
SkippedOptOut(i) == EmailOf(df0[i]) # "" /\ IsOptedOut(df0[i])
SkippedDate(i) ==
    EmailOf(df0[i]) # "" /\ ~IsOptedOut(df0[i]) /\ LeaseEnd(df0[i]) = None

Done(i) == pc = "saved" \/ i < idx

(* C8 as stated: every record skipped for a missing email, an unparseable  *)
(* lease end date or an opt-out flag has an audit line.                    *)
C8_EverySkipLogged ==
    Loaded =>
        \A i \in DOMAIN df0 :
            (Done(i) /\ (SkippedEmail(i) \/ SkippedOptOut(i) \/ SkippedDate(i)))
                => RowLines(runs, i) # {}

(* C8 amended: a record skipped for its opt-out flag or its lease end date *)
(* has exactly one line, a "skip" with the reason; a record skipped for an *)
(* empty email has none; the run goes on to the next record and saves.     *)
C8_SkipsLoggedButEmail ==
    Loaded =>
        /\ \A i \in DOMAIN df0 :
              Done(i) =>
                  /\ SkippedEmail(i) => RowLines(runs, i) = {}
                  /\ SkippedOptOut(i) =>
                        /\ Cardinality(RowLines(runs, i)) = 1
                        /\ \A k \in RowLines(runs, i) :
                              /\ log[k].status = "skip"
                              /\ log[k].note = "opted_out"
                              /\ log[k].email = EmailOf(df0[i])
                  /\ SkippedDate(i) =>
                        /\ Cardinality(RowLines(runs, i)) = 1
                        /\ \A k \in RowLines(runs, i) :
                              /\ log[k].status = "skip"
                              /\ log[k].note = "invalid lease_end_date"
                              /\ log[k].email = EmailOf(df0[i])
                  /\ (SkippedEmail(i) \/ SkippedOptOut(i) \/ SkippedDate(i)) =>
                        (RowSends(runs, i) = {} /\ TrackingKept(i))
        /\ pc = "saved" =>
              \A p \in Pairs :
                  (Passes(p[1]) /\ ~Recent(p[1], p[2]) /\ InsideWindow(p[1], p[2]))
                      => SendsOf(runs, p[1], p[2]) # {}

(* a saved run that skipped a row for its opt-out flag and sent for the next *)
C8_Witness ==
    /\ pc = "saved"
    /\ \E i \in DOMAIN df0 :
          /\ SkippedOptOut(i)
          /\ i + 1 \in DOMAIN df0
          /\ RowSends(runs, i + 1) # {}

(* C9: without credentials the call ends in "aborted" with the workbook    *)
(* neither read nor written, no send attempt and no audit line.            *)
C9_NoCredentialsNoOp ==
    /\ [](~creds =>
            /\ pc \in {"idle", "aborted"}
            /\ io.reads = 0 /\ io.writes = 0
            /\ log = << >> /\ sends = << >> /\ df = << >>
            /\ runs > 0 => pc = "aborted")
    /\ [][~creds => store' = store]_vars

(* a call without credentials on a workbook with a row to send for *)
C9_Witness ==
    /\ ~creds
    /\ pc = "aborted"
    /\ store # << >>
    /\ \E i \in DOMAIN store :
          /\ "email" \in DOMAIN store[i]
          /\ store[i]["email"] = Str("a@x.com")
          /\ "lease_end_date" \in DOMAIN store[i]
          /\ parse_date(store[i]["lease_end_date"]) = Some(clock + 60)

MissingRequired(f) ==
    f # << >> /\ {"email", "lease_end_date"} \ DOMAIN f[1] # {}

(* C10 as stated: with a required column absent the call aborts before a   *)
(* row is processed and before the workbook is written.                    *)
C10_MissingColumnAborts ==
    (runs > 0 /\ MissingRequired(store)) =>
        (pc # "saved" /\ io.writes = 0 /\ idx <= 1 /\ log = << >>)

(* C10 amended: a required column that is absent aborts nothing.  Without  *)
(* the email column every row is passed over with no send, stamp or line;  *)
(* without the lease end column every row that has an email and is not     *)
(* opted out gets one "skip" line "invalid lease_end_date" and no send;    *)
(* either way the workbook is written at the end of the run.               *)
C10_MissingColumnSkipsRows ==
    (Loaded /\ MissingRequired(df0)) =>
        /\ \A i \in DOMAIN df0 :
              /\ RowSends(runs, i) = {}
              /\ TrackingKept(i)
              /\ "email" \notin DOMAIN df0[i] => RowLines(runs, i) = {}
              /\ ( /\ Done(i)
                   /\ "lease_end_date" \notin DOMAIN df0[i]
                   /\ EmailOf(df0[i]) # ""
                   /\ ~IsOptedOut(df0[i]) )
                 => /\ Cardinality(RowLines(runs, i)) = 1
                    /\ \A k \in RowLines(runs, i) :
                          log[k].status = "skip" /\ log[k].note = "invalid lease_end_date"
        /\ pc = "saved" => (io.writes = io.reads /\ store = to_excel(df))

(* a saved run on a workbook without the email column *)
C10_Witness ==
    /\ pc = "saved"
    /\ df0 # << >>
    /\ "email" \notin DOMAIN df0[1]
    /\ parse_date(df0[1]["lease_end_date"]) # None
    /\ io.writes > 0

----------------------------------------------------------------------------
(* Dry runs beside normal runs: workbooks with a first_name column *)

WithName(r, n) == [c \in (DOMAIN r) \cup {"first_name"} |-> IF c = "first_name" THEN n ELSE r[c]]

DryRows ==
    { WithName(Row(Str("a@x.com"), NaN, DateStr(100), NaN, NaN), Str("Ann")),
      WithName(Row(Str("b@x.com"), NaN, Ts(70), NaN, NaN), NaN),
      WithName(Row(Str("c@x.com"), Str("Yes"), DateStr(100), NaN, NaN), Str("Cy")),
      WithName(Row(Str("d@x.com"), NaN, Str("n/a"), NaN, NaN), Str("Di")),
      WithName(Row(Str(" "), NaN, Ts(70), NaN, NaN), Str("Ed")) }

DryDays == {40, 42}

InitDry ==
    /\ store \in SeqsOf(DryRows, 1, MaxRows)
    /\ creds \in BOOLEAN
    /\ clock \in DryDays
    /\ pc = "idle"
    /\ df = << >>
    /\ today = 0
    /\ sent_counter = [c \in MilestoneCols |-> 0]
    /\ idx = 0
    /\ row = NoRow
    /\ email_addr = ""
    /\ days_until = 0
    /\ mi = 0
    /\ log = << >>
    /\ sends = << >>
    /\ io = [reads |-> 0, writes |-> 0]
    /\ runs = 0
    /\ df0 = << >>
    /\ w = NoCall
    /\ dry_run \in BOOLEAN
    /\ cadence = DayGaps
    /\ crashed = {}
    /\ jobs = IdleJobs

SpecDry == InitDry /\ [][Next]_vars

(* What a run whose every send returns leaves behind, from the frame it    *)
(* loaded and the day alone                                                *)

Fires(i, j) == Passes(i) /\ ~Recent(i, j) /\ InsideWindow(i, j)

ExpDf ==
    [i \in DOMAIN df0 |->
        [c \in DOMAIN df0[i] |->
            IF \E j \in DOMAIN MILESTONES : ColOf(j) = c /\ Fires(i, j)
            THEN DateStr(today) ELSE df0[i][c]]]

ExpCount ==
    [c \in MilestoneCols |->
        Cardinality({ i \in DOMAIN df0 :
            \E j \in DOMAIN MILESTONES : ColOf(j) = c /\ Fires(i, j) })]

ExpLine(i, j, status, note) ==
    [ts |-> today, email |-> EmailOf(df0[i]), status |-> status, note |-> note,
     run |-> runs, row |-> i, ms |-> j]

RECURSIVE ExpSent(_, _)
ExpSent(i, j) ==
    IF j > Len(MILESTONES) THEN << >>
    ELSE (IF Fires(i, j)
          THEN << ExpLine(i, j, "sent",
                          IF MILESTONES[j].days = 60 THEN "milestone=60" ELSE "milestone=30") >>
          ELSE << >>) \o ExpSent(i, j + 1)

ExpRowLog(i) ==
    IF SkippedEmail(i) THEN << >>
    ELSE IF SkippedOptOut(i) THEN << ExpLine(i, 0, "skip", "opted_out") >>
    ELSE IF SkippedDate(i) THEN << ExpLine(i, 0, "skip", "invalid lease_end_date") >>
    ELSE ExpSent(i, 1)

RECURSIVE ExpLog(_)
ExpLog(i) == IF i > Len(df0) THEN << >> ELSE ExpRowLog(i) \o ExpLog(i + 1)

RECURSIVE ExpMsgs(_, _)
ExpMsgs(i, j) ==
    IF i > Len(df0) THEN << >>
    ELSE IF j > Len(MILESTONES) THEN ExpMsgs(i + 1, 1)
    ELSE (IF Fires(i, j)
          THEN << [row |-> i, ms |-> j, to |-> EmailOf(df0[i]),
                   msg |-> Render(df0[i], MILESTONES[j], LeaseEnd(df0[i])[1])] >>
          ELSE << >>) \o ExpMsgs(i, j + 1)

InThisRun(e) == e.run = runs

RunLog == SelectSeq(log, InThisRun)

RunMsgs ==
    LET mine == SelectSeq(sends, InThisRun)
    IN  [k \in DOMAIN mine |->
            [row |-> mine[k].row, ms |-> mine[k].ms, to |-> mine[k].to, msg |-> mine[k].msg]]

(* C11: a dry run never invokes the mail transport, and it leaves the      *)
(* frame, the workbook, the counters, the log lines and the rendered       *)
(* messages that a normal run whose sends all succeed leaves for the same  *)
(* workbook and day.                                                       *)
C11_DryRunAsNormal ==
    /\ dry_run => \A k \in DOMAIN sends : ~sends[k].smtp /\ sends[k].ok
    /\ ~dry_run => \A k \in DOMAIN sends : sends[k].smtp
    /\ (pc = "saved" /\ (dry_run \/ FailedSends = {})) =>
          /\ df = ExpDf
          /\ store = to_excel(ExpDf)
          /\ sent_counter = ExpCount
          /\ RunLog = ExpLog(1)
          /\ RunMsgs = ExpMsgs(1, 1)

(* a saved dry run that rendered and stamped a reminder *)
C11_Witness ==
    /\ dry_run
    /\ pc = "saved"
    /\ \E k \in DOMAIN sends : sends[k].run = runs /\ df[sends[k].row] # df0[sends[k].row]

----------------------------------------------------------------------------
(* Runs that end between line 152 and line 201: the process is killed, or  *)
(* an exception that line 197 does not catch leaves process_reminders      *)
(* (KeyboardInterrupt, or log() raising). The frame is lost, the workbook  *)
(* and the log file are as they were.                                      *)

Crash ==
    /\ pc \in {"row", "ms"}
    /\ pc' = "crashed"
    /\ crashed' = crashed \cup {runs}
    /\ UNCHANGED <<store, creds, clock, df, today, sent_counter, idx, row, email_addr,
                   days_until, mi, log, sends, io, runs, df0, w,
                   dry_run, cadence, jobs>>

(* the process ends after line 193 returned and before lines 194-196 *)
CrashAfterSend ==
    /\ AtMilestone
    /\ Matches
    /\ sends' = Append(sends, SendRecord(TRUE))
    /\ pc' = "crashed"
    /\ crashed' = crashed \cup {runs}
    /\ UNCHANGED <<store, creds, clock, df, today, sent_counter, idx, row, email_addr,
                   days_until, mi, log, io, runs, df0, w,
                   dry_run, cadence, jobs>>

CrashRows ==
    { Row(Str("a@x.com"), NaN, DateStr(100), NaN, NaN),
      Row(Str("c@x.com"), Str("Yes"), DateStr(100), NaN, NaN),
      Row(Str("d@x.com"), NaN, Str("n/a"), NaN, NaN),
      Row(Str(" "), NaN, Ts(70), NaN, NaN) }

CrashDays == {42}

InitCrash ==
    /\ store \in SeqsOf(CrashRows, 1, MaxRows)
    /\ creds \in BOOLEAN
    /\ clock \in CrashDays
    /\ pc = "idle"
    /\ df = << >>
    /\ today = 0
    /\ sent_counter = [c \in MilestoneCols |-> 0]
    /\ idx = 0
    /\ row = NoRow
    /\ email_addr = ""
    /\ days_until = 0
    /\ mi = 0
    /\ log = << >>
    /\ sends = << >>
    /\ io = [reads |-> 0, writes |-> 0]
    /\ runs = 0
    /\ df0 = << >>
    /\ w = NoCall
    /\ dry_run = FALSE
    /\ cadence = DayGaps
    /\ crashed = {}
    /\ jobs = IdleJobs

NextCrash == Next \/ Crash \/ CrashAfterSend

SpecCrash == InitCrash /\ [][NextCrash]_vars

(* the successful sends of run r for row i and milestone j *)
OkSendsOf(r, i, j) == { k \in SendsOf(r, i, j) : sends[k].ok }

(* the run that just saved followed a crashed run, and every pair the      *)
(* crashed run sent that still passes the tests today was sent again       *)
ResentAfterCrash ==
    (pc = "saved" /\ (runs - 1) \in crashed) =>
        \A <<i, j>> \in Pairs :
            ((OkSendsOf(runs - 1, i, j) # {} /\ Passes(i) /\ InsideWindow(i, j))
                => SendsOf(runs, i, j) # {})

(* what one step may do to the workbook *)
PersistStep ==
    /\ (store' # store \/ io'.writes # io.writes) =>
          /\ pc = "row" /\ idx > Len(df)
          /\ pc' = "saved"
          /\ store' = to_excel(df)
    /\ (pc' = "saved" /\ pc # "saved") => (io'.writes = io.writes + 1)
    /\ (pc \in {"row", "ms"} /\ pc' \in {"row", "ms"}) =>
          (store' = store /\ io'.writes = io.writes)
    /\ (pc' = "crashed") =>
          /\ store' = store
          /\ EnsureCols(read_excel(store')) = df0'
    /\ ResentAfterCrash'

(* C12: the workbook is written only by the step that ends a completed run *)
(* (after the last row, once), never while rows are processed; when a run  *)
(* ends before that step the workbook holds none of its stamps, and the    *)
(* next run, if its day is still inside the window, sends the same pair    *)
(* again.                                                                  *)
C12_PersistOnceAtEnd ==
    [][PersistStep]_vars

(* a pair sent by a crashed run and sent again by the run after it *)
C12_Witness ==
    /\ pc = "saved"
    /\ (runs - 1) \in crashed
    /\ \E <<i, j>> \in Pairs :
          OkSendsOf(runs - 1, i, j) # {} /\ OkSendsOf(runs, i, j) # {}

----------------------------------------------------------------------------
(* the failed sends of run r for row i and milestone j *)
FailedSendsOf(r, i, j) == { k \in SendsOf(r, i, j) : ~sends[k].ok }

(* C13: a run calls send_outlook at most once for a pair, also when the    *)
(* call fails; the failed pair's tracking field is saved as it was loaded, *)
(* and the next run, when the record still passes the tests and the day is *)
(* still inside the window, calls send_outlook for the pair again.         *)
C13_NoRetryInRun ==
    /\ \A k1, k2 \in DOMAIN sends :
          ( /\ sends[k1].run = sends[k2].run
            /\ sends[k1].row = sends[k2].row
            /\ sends[k1].ms = sends[k2].ms ) => k1 = k2
    /\ pc = "saved" =>
          \A <<i, j>> \in Pairs :
              /\ FailedSendsOf(runs, i, j) # {} =>
                    store[i][ColOf(j)] = to_excel(df0)[i][ColOf(j)]
              /\ (FailedSendsOf(runs - 1, i, j) # {} /\ Passes(i) /\ InsideWindow(i, j))
                    => SendsOf(runs, i, j) # {}

(* a pair whose send failed in one run and was attempted again by the next *)
C13_Witness ==
    /\ pc = "saved"
    /\ \E <<i, j>> \in Pairs :
          /\ FailedSendsOf(runs - 1, i, j) # {}
          /\ Cardinality(SendsOf(runs, i, j)) = 1
          /\ Cardinality(SendsOf(runs - 1, i, j)) = 1

----------------------------------------------------------------------------
(* The audit log *)

(* every step keeps the lines the log holds, in place, and adds at most one *)
AppendOnly ==
    /\ Len(log') \in {Len(log), Len(log) + 1}
    /\ SubSeq(log', 1, Len(log)) = log

(* lines are in run order, within a run in row order, within a row in      *)
(* milestone order (a record's skip line has milestone 0)                  *)
LogOrdered ==
    \A k1, k2 \in DOMAIN log :
        k1 < k2 =>
            \/ log[k1].run < log[k2].run
            \/ log[k1].run = log[k2].run /\ log[k1].row < log[k2].row
            \/ /\ log[k1].run = log[k2].run
               /\ log[k1].row = log[k2].row
               /\ log[k1].ms < log[k2].ms

(* the lines of the rows the run is done with: one per send attempt,       *)
(* "sent" or "error" as the attempt went, none for a pair in cooldown or   *)
(* outside its window, one "skip" for a record skipped for its opt-out     *)
(* flag or its lease end date, and for a record skipped for its email one  *)
(* "skip" if emailLogged and none otherwise                                *)
LogHolds(emailLogged) ==
    Loaded =>
        \A i \in DOMAIN df0 :
            Done(i) =>
                /\ Cardinality(SkipLines(i)) =
                      (IF SkippedOptOut(i) \/ SkippedDate(i) \/ (emailLogged /\ SkippedEmail(i))
                       THEN 1 ELSE 0)
                /\ \A j \in DOMAIN MILESTONES :
                      /\ Cardinality(LinesOf(runs, i, j, "sent")) =
                            Cardinality(OkSendsOf(runs, i, j))
                      /\ Cardinality(LinesOf(runs, i, j, "error")) =
                            Cardinality(FailedSendsOf(runs, i, j))
                      /\ Cardinality(SendsOf(runs, i, j)) <= 1
                      /\ LinesOf(runs, i, j, "skip") = {}
                      /\ (Passes(i) /\ (Recent(i, j) \/ ~InsideWindow(i, j))) =>
                            { k \in RowLines(runs, i) : log[k].ms = j } = {}
                /\ \A k \in RowLines(runs, i) :
                      log[k].status \in {"skip", "sent", "error"}

LogStep == AppendOnly /\ LogOrdered' /\ LogHolds(FALSE)'

(* C14 as stated: the log is ordered and holds one line per outcome that   *)
(* ended an evaluation (skip, sent or error), every skipped record         *)
(* included.                                                               *)
C14_OneEntryPerOutcome ==
    LogOrdered /\ LogHolds(TRUE)

(* C14 amended: the log is append-only, ordered by row and within a row by *)
(* milestone, and holds one line per send attempt ("sent" or "error") and  *)
(* one "skip" line per record skipped for its opt-out flag or lease end    *)
(* date; a pair in cooldown or outside its window adds no line, and a      *)
(* record skipped for an empty email adds none either.                     *)
C14_AppendOnlyLog ==
    [][LogStep]_vars

(* a saved second run that added lines behind the first run's, with a      *)
(* record skipped for its email and a pair outside its window beside a     *)
(* logged send                                                             *)
C14_Witness ==
    /\ pc = "saved"
    /\ \E k1, k2 \in DOMAIN log : log[k1].run < log[k2].run /\ log[k2].run = runs
    /\ \E i \in DOMAIN df0 : SkippedEmail(i)
    /\ \E <<i, j>> \in Pairs : Passes(i) /\ ~InsideWindow(i, j) /\ RowLines(runs, i) # {}

----------------------------------------------------------------------------
(* start_weekly_scheduler, lines 208-218: a BlockingScheduler with one job, *)
(* weekly_job, on a cron trigger (Saturday, hour 10). Neither the scheduler *)
(* nor the job is given max_instances, so the job runs with the library's   *)
(* default of one instance at a time; a trigger that comes while the        *)
(* instance runs is skipped. weekly_job runs on a thread of the pool.       *)

MAX_INSTANCES == 1

WEEK == 7

(* variant: only the pool's size limits the instances of the job *)
MayRun_PoolOnly(n) == n < MaxWorkers

(* line 213: the job may be submitted while n instances of it run *)
MayRun(n) == n < MAX_INSTANCES

Busy == { t \in Workers : jobs.at[t] = "busy" }

(* the trigger comes: weekly_job is submitted to a free thread, or skipped *)
CronFire ==
    /\ jobs.fired < MaxRuns
    /\ jobs.missed < MaxRuns
    /\ clock' = clock + WEEK
    /\ IF MayRun(Cardinality(Busy))
       THEN \E t \in Workers \ Busy :
               jobs' = [jobs EXCEPT !.at[t] = "busy", !.fired = @ + 1]
       ELSE jobs' = [jobs EXCEPT !.missed = @ + 1]
    /\ UNCHANGED <<store, creds, pc, df, today, sent_counter, idx, row, email_addr,
                   days_until, mi, log, sends, io, runs, df0, w,
                   dry_run, cadence, crashed>>

(* lines 214-215: the submitted weekly_job calls process_reminders *)
JobStart ==
    /\ runs < jobs.fired
    /\ (Load \/ Abort)

(* weekly_job returns, or SystemExit (line 137) is caught by the thread *)
JobReturn ==
    /\ runs = jobs.fired
    /\ pc \in {"saved", "aborted"}
    /\ \E t \in Busy : jobs' = [jobs EXCEPT !.at[t] = "free"]
    /\ UNCHANGED <<store, creds, clock, pc, df, today, sent_counter, idx, row,
                   email_addr, days_until, mi, log, sends, io, runs, df0, w,
                   dry_run, cadence, crashed>>

SchedRows ==
    { Row(Str("a@x.com"), NaN, DateStr(100), NaN, NaN),
      Row(Str("c@x.com"), Str("Yes"), DateStr(100), NaN, NaN),
      Row(Str("d@x.com"), NaN, Str("n/a"), NaN, NaN),
      Row(Str(" "), NaN, Ts(70), NaN, NaN) }

SchedDays == {35}

InitSched ==
    /\ store \in SeqsOf(SchedRows, 1, MaxRows)
    /\ creds \in BOOLEAN
    /\ clock \in SchedDays
    /\ pc = "idle"
    /\ df = << >>
    /\ today = 0
    /\ sent_counter = [c \in MilestoneCols |-> 0]
    /\ idx = 0
    /\ row = NoRow
    /\ email_addr = ""
    /\ days_until = 0
    /\ mi = 0
    /\ log = << >>
    /\ sends = << >>
    /\ io = [reads |-> 0, writes |-> 0]
    /\ runs = 0
    /\ df0 = << >>
    /\ w = NoCall
    /\ dry_run = FALSE
    /\ cadence = {0}
    /\ crashed = {}
    /\ jobs = IdleJobs

NextSched == CronFire \/ JobStart \/ RunStep \/ JobReturn

SpecSched == InitSched /\ [][NextSched]_vars

(* a call of process_reminders is between its read (line 141) and the end  *)
(* of its write (lines 201-202)                                            *)
InCycle == pc \in {"row", "ms"}

(* C15: at most one instance of weekly_job runs at a time, a run is        *)
(* started only when no run is between its read and its persist, and the   *)
(* reads and writes of the workbook alternate (no second read before the   *)
(* write of the run that read first).                                      *)
C15_SerialRuns ==
    /\ Cardinality(Busy) <= 1
    /\ InCycle => (Cardinality(Busy) = 1 /\ runs = jobs.fired)
    /\ runs \in {jobs.fired, jobs.fired - 1}
    /\ (runs < jobs.fired) => ~InCycle
    /\ io.reads - io.writes = (IF InCycle THEN 1 ELSE 0)

(* a trigger that came while an instance of the job ran was skipped, and   *)
(* the second submitted run is between its read and its persist            *)
C15_Witness ==
    /\ InCycle
    /\ jobs.missed > 0
    /\ jobs.fired = 2

----------------------------------------------------------------------------
(* The weekly schedule on its own: calls WEEK days apart, credentials set, *)
(* every call runs to its save, every send returns                         *)

WeeklyDays == {40}

(* lease ends 62 to 69 days after the first call, one for each weekday *)
WeeklyLeases == { d + n : d \in WeeklyDays, n \in 62..69 }

WeeklyRows ==
    { Row(Str("a@x.com"), NaN, DateStr(l), NaN, NaN) : l \in WeeklyLeases }
    \cup { Row(Str("c@x.com"), Str("Yes"), DateStr(104), NaN, NaN),
           Row(Str("d@x.com"), NaN, Str("n/a"), NaN, NaN),
           Row(Str(" "), NaN, DateStr(104), NaN, NaN) }

InitWeekly ==
    /\ store \in SeqsOf(WeeklyRows, 1, MaxRows)
    /\ creds = TRUE
    /\ clock \in WeeklyDays
    /\ pc = "idle"
    /\ df = << >>
    /\ today = 0
    /\ sent_counter = [c \in MilestoneCols |-> 0]
    /\ idx = 0
    /\ row = NoRow
    /\ email_addr = ""
    /\ days_until = 0
    /\ mi = 0
    /\ log = << >>
    /\ sends = << >>
    /\ io = [reads |-> 0, writes |-> 0]
    /\ runs = 0
    /\ df0 = << >>
    /\ w = NoCall
    /\ dry_run = FALSE
    /\ cadence = {WEEK}
    /\ crashed = {}
    /\ jobs = IdleJobs

NextWeekly ==
    \/ Load
    \/ SkipEmptyEmail
    \/ SkipOptedOut
    \/ SkipInvalidDate
    \/ EnterRow
    \/ MsCooldown
    \/ MsNoMatch
    \/ MsSendOk
    \/ Save

SpecWeekly == InitWeekly /\ [][NextWeekly]_vars /\ WF_vars(NextWeekly)

(* the day of the first call, seen from a later call of the weekly schedule *)
FirstDay == today - WEEK * (runs - 1)

(* the successful sends of all runs for row i and milestone j *)
EverSent(i, j) ==
    { k \in DOMAIN sends : sends[k].row = i /\ sends[k].ms = j /\ sends[k].ok }

(* the day is past the last day of the window of <<i, j>> *)
WindowPassed(i, j) == DaysUntil0(i) < MILESTONES[j].days - MILESTONES[j].tolerance

(* C16: under the weekly schedule every record that passes the tests and   *)
(* whose lease ends more than 62 days after the first run is sent each     *)
(* reminder; so once a run has saved on a day past a milestone's window,   *)
(* that reminder has been sent.                                            *)
C16_WeeklyReachesAll ==
    pc = "saved" =>
        \A <<i, j>> \in Pairs :
            (Passes(i) /\ LeaseEnd(df0[i])[1] - FirstDay > 62 /\ WindowPassed(i, j))
                => EverSent(i, j) # {}

----------------------------------------------------------------------------
(* Calls at any spacing: the same day, days apart, past the cooldown *)

SpacingGaps == {0, 1, 2, 4, 5, 21, 30}

SpacingDays == {38, 40, 42}

SpacingRows == CrashRows \cup { Row(Str("b@x.com"), NaN, Ts(70), NaN, NaN) }

InitSpacing ==
    /\ store \in SeqsOf(SpacingRows, 1, MaxRows)
    /\ creds \in BOOLEAN
    /\ clock \in SpacingDays
    /\ pc = "idle"
    /\ df = << >>
    /\ today = 0
    /\ sent_counter = [c \in MilestoneCols |-> 0]
    /\ idx = 0
    /\ row = NoRow
    /\ email_addr = ""
    /\ days_until = 0
    /\ mi = 0
    /\ log = << >>
    /\ sends = << >>
    /\ io = [reads |-> 0, writes |-> 0]
    /\ runs = 0
    /\ df0 = << >>
    /\ w = NoCall
    /\ dry_run = FALSE
    /\ cadence = SpacingGaps
    /\ crashed = {}
    /\ jobs = IdleJobs

SpecSpacing == InitSpacing /\ [][Next]_vars

(* C17: over runs on non-decreasing days at any spacing, with tolerance 2  *)
(* and cooldown 21, a pair gets at most one successful send in all.        *)
C17_AtMostOneSend ==
    \A i \in DOMAIN store :
        \A j \in DOMAIN MILESTONES : Cardinality(EverSent(i, j)) <= 1

(* a later run, on a later day still inside the window, that saved without *)
(* sending the pair an earlier run had sent                                *)
C17_Witness ==
    /\ pc = "saved"
    /\ \E <<i, j>> \in Pairs :
          /\ Passes(i)
          /\ InsideWindow(i, j)
          /\ \E k \in EverSent(i, j) : sends[k].run < runs /\ sends[k].day < today
          /\ SendsOf(runs, i, j) = {}

----------------------------------------------------------------------------
(* What a completed run writes back *)

(* two cells hold the same value; empty cells are the same however written *)
SameCell(a, b) == a = b \/ (IsEmptyCell(a) /\ IsEmptyCell(b))

(* the run sent <<i, j>> successfully and col is the pair's tracking field *)
SentInto(i, col) ==
    \E j \in DOMAIN MILESTONES : ColOf(j) = col /\ OkSendsOf(runs, i, j) # {}

(* the step that saves: the workbook before it is the one the run read *)
SaveFrame ==
    (pc' = "saved" /\ pc # "saved") =>
        /\ Len(store') = Len(store)
        /\ \A i \in DOMAIN store :
              /\ DOMAIN store'[i] = (DOMAIN store[i]) \cup MilestoneCols
              /\ \A col \in DOMAIN store'[i] :
                    IF SentInto(i, col)
                    THEN parse_date(store'[i][col]) = Some(today)
                    ELSE IF col \in DOMAIN store[i]
                         THEN SameCell(store'[i][col], store[i][col])
                         ELSE IsEmptyCell(store'[i][col])

====
